---- MODULE Spec2Model ----
(***************************************************************************)
(* Model of the chain-of-responsibility demo                               *)
(* (chain_of_responsibility_demo.py), the command-pattern demo             *)
(* (command_pattern_demo.py), the singletons (singleton_pattern_demo.py),  *)
(* the proxies (proxy_pattern_demo.py), BankAccount and Employee           *)
(* (encapsulation_demo.py) and the asyncio demo (async_await_demo.py).     *)
(***************************************************************************)
EXTENDS Integers, Sequences, FiniteSets, TLC

(* ------------------------------ bounds --------------------------------- *)
\* request levels 0..MaxLevel are submitted, plus the demo's level 10
MaxLevel == 5
\* depth at which the interpreter gives up a recursion (RecursionError)
RecursionLimit == 6
\* most execute() calls the commands held in the history stand for
MaxExecutes == 4
\* longest member list of a MacroCommand
MaxMacroLen == 2
\* longest string written to the file
MaxDataLen == 2
\* longest access log the smart proxy is driven to
MaxLog == 4
\* amounts passed to the BankAccount run from -MaxAmount to MaxAmount
MaxAmount == 3
\* largest balance the account is driven to
MaxBalance == 6
\* small salaries run from -1 to MaxSalary
MaxSalary == 10
\* successful give_raise calls on one Employee
MaxRaises == 1
\* the random delays of fetch_data are 1..MaxDelay ticks
MaxDelay == 3

(* ------------------------- program constants --------------------------- *)
\* run_demo's "Company acquisition" request
DemoHighLevel == 10

None == "None"

VARIABLES
  \* chain of responsibility
  next_handler,   \* handler -> its _next_handler (None when unset)
  pc,             \* "idle" | "call" | "done": position of the caller of handle
  cur,            \* handler whose handle() is executing
  level,          \* level of the request being handled
  trace,          \* handlers whose handle() was invoked, in call order
  result,         \* "pending" | "True" | "False" | "RecursionError"
  log,            \* lines printed by the handlers during the call
  \* command pattern
  is_on,          \* Light -> is_on
  history,        \* SimpleRemoteControl.history
  calls,          \* execute()/undo() calls made by the last remote operation
  out,            \* line printed by the remote in its last operation
  net,            \* press_button calls minus press_undo calls that popped
  \* N presses followed by N undos
  orig,           \* is_on when the first press_button of the round was made
  phase,          \* "idle" | "pressing" | "undoing"
  npressed,       \* press_button calls of the round
  \* several callers of handle on one chain
  callers,        \* caller -> [pc, level, cur, depth, result] of its handle call
  \* ThreadSafeSingleton
  ts_instance,    \* ThreadSafeSingleton._instance: 0 for None, else the object
  ts_lock,        \* ThreadSafeSingleton._lock is held
  ts_objs,        \* the objects created: [initialized, value] of each
  ts_thr,         \* thread -> [pc, obj, left] of its constructor calls
  ts_inits,       \* times the guarded body of __init__ has run
  \* the single-threaded singletons
  lg,             \* Logger: SingletonMeta._instances entry, objects, last call
  db,             \* DatabaseConnection: _instance, objects, last call and output
  cfg,            \* ConfigurationManager: instances entry, objects, last call
  \* proxies
  file,           \* test_file.txt: [exists, data]
  sm,             \* SmartFileDataSource: _cache, _access_log, last call
  lz,             \* LazyFileDataSource: _real_datasource, last call
  pr,             \* ProtectedFileDataSource: user_role, last call
  \* encapsulation
  acct,           \* BankAccount: _balance, and the last call with its outcome
  emp,            \* Employee: __salary, and the last call with its outcome
  \* async / await
  fetch,          \* the three fetch_data tasks: position, wake-up time, result
  ready,          \* the event loop's queue of callbacks ready to run
  aio,            \* demonstrate_concurrency: position, locals, gather's state
  events          \* what has been printed so far, in order

chainVars == <<next_handler, pc, cur, level, trace, result, log>>
cmdVars == <<is_on, history, calls, out, net>>
roundVars == <<orig, phase, npressed>>
callersVars == <<callers>>
tsVars == <<ts_instance, ts_lock, ts_objs, ts_thr, ts_inits>>
sgVars == <<lg, db, cfg>>
proxyVars == <<file, sm, lz, pr>>
bankVars == <<acct>>
empVars == <<emp>>
aioVars == <<fetch, ready, aio, events>>
laterVars == <<callersVars, tsVars, sgVars, proxyVars, bankVars, empVars,
               aioVars>>
vars == <<next_handler, pc, cur, level, trace, result, log,
          is_on, history, calls, out, net, orig, phase, npressed,
          callers, ts_instance, ts_lock, ts_objs, ts_thr, ts_inits,
          lg, db, cfg, file, sm, lz, pr, acct,
          emp, fetch, ready, aio, events>>

(* ======================= chain of responsibility ======================= *)

\* the four handler objects run_demo constructs
Handlers == {"junior", "senior", "lead", "manager"}

Levels == (0..MaxLevel) \cup {DemoHighLevel}

\* the literal each concrete handle() compares the level with
Threshold ==
  [h \in Handlers |->
     CASE h = "junior" -> 1
       [] h = "senior" -> 2
       [] h = "lead" -> 3
       [] h = "manager" -> 4]

AcceptsStrict(h, lv) == lv < Threshold[h]

\* the test at the top of each concrete handle()
Accepts(h, lv) == lv <= Threshold[h]

HandledLine(h) == [ev |-> "Handled", by |-> h]

UnhandledLine(h) == [ev |-> "could not be handled", by |-> h]

\* junior.set_next(senior).set_next(lead).set_next(manager)
DemoChain ==
  [h \in Handlers |->
     CASE h = "junior" -> "senior"
       [] h = "senior" -> "lead"
       [] h = "lead" -> "manager"
       [] h = "manager" -> None]

ChainInit ==
  /\ next_handler = [h \in Handlers |-> None]
  /\ pc = "idle"
  /\ cur = None
  /\ level = 0
  /\ trace = <<>>
  /\ result = "pending"
  /\ log = <<>>

CmdIdle ==
  /\ UNCHANGED <<is_on, history, calls, out, net, orig, phase, npressed>>
  /\ UNCHANGED laterVars

\* h.set_next(g)
SetNext(h, g) ==
  /\ pc = "idle"
  /\ next_handler' = [next_handler EXCEPT ![h] = g]
  /\ UNCHANGED <<pc, cur, level, trace, result, log>>
  /\ CmdIdle

\* a caller invokes h.handle(request, lv)
Submit(h, lv) ==
  /\ pc = "idle"
  /\ pc' = "call"
  /\ cur' = h
  /\ level' = lv
  /\ trace' = <<h>>
  /\ result' = "pending"
  /\ log' = <<>>
  /\ UNCHANGED next_handler
  /\ CmdIdle

\* concrete handle(): the level is within the handler's threshold
HandleAccept ==
  /\ pc = "call"
  /\ Accepts(cur, level)
  /\ log' = Append(log, HandledLine(cur))
  /\ result' = "True"
  /\ pc' = "done"
  /\ UNCHANGED <<next_handler, cur, level, trace>>
  /\ CmdIdle

DelegateTargetSelf(h) == h

\* the handler super().handle() passes the request to
DelegateTarget(h) == next_handler[h]

\* concrete handle() falls to super().handle(), which calls the successor
HandleDelegate ==
  /\ pc = "call"
  /\ ~Accepts(cur, level)
  /\ next_handler[cur] # None
  /\ Len(trace) < RecursionLimit
  /\ cur' = DelegateTarget(cur)
  /\ trace' = Append(trace, DelegateTarget(cur))
  /\ UNCHANGED <<next_handler, pc, level, result, log>>
  /\ CmdIdle

\* the successor call exceeds the interpreter's recursion limit
HandleRecursionError ==
  /\ pc = "call"
  /\ ~Accepts(cur, level)
  /\ next_handler[cur] # None
  /\ Len(trace) >= RecursionLimit
  /\ result' = "RecursionError"
  /\ pc' = "done"
  /\ UNCHANGED <<next_handler, cur, level, trace, log>>
  /\ CmdIdle

UnhandledResultTrue == "True"

\* what SupportHandler.handle returns when there is no successor
UnhandledResult == "False"

\* super().handle() with no successor
HandleUnhandled ==
  /\ pc = "call"
  /\ ~Accepts(cur, level)
  /\ next_handler[cur] = None
  /\ log' = Append(log, UnhandledLine(cur))
  /\ result' = UnhandledResult
  /\ pc' = "done"
  /\ UNCHANGED <<next_handler, cur, level, trace>>
  /\ CmdIdle

\* the call has returned to the caller, which goes on
Return ==
  /\ pc = "done"
  /\ pc' = "idle"
  /\ cur' = None
  /\ level' = 0
  /\ trace' = <<>>
  /\ result' = "pending"
  /\ log' = <<>>
  /\ UNCHANGED next_handler
  /\ CmdIdle

(* --------------- several callers of handle on one chain ---------------- *)

\* the threads that call junior.handle(request, level)
Callers == {"caller1", "caller2"}

IdleCall == [pc |-> "idle", level |-> 0, cur |-> None, depth |-> 0,
             result |-> "pending"]

CallersInit == callers = [c \in Callers |-> IdleCall]

AllIdle == \A c \in Callers : callers[c].pc = "idle"

SingleIdle ==
  /\ UNCHANGED <<pc, cur, level, trace, result, log,
                 is_on, history, calls, out, net, orig, phase, npressed>>
  /\ UNCHANGED <<tsVars, sgVars, proxyVars, bankVars, empVars,
               aioVars>>

\* h.set_next(g), before the callers run
CallersSetNext(h, g) ==
  /\ AllIdle
  /\ SetNext(h, g)

\* caller c invokes junior.handle(request, lv)
CallerSubmit(c, lv) ==
  /\ callers[c].pc = "idle"
  /\ callers' = [callers EXCEPT ![c] =
                   [pc |-> "call", level |-> lv, cur |-> "junior", depth |-> 1,
                    result |-> "pending"]]
  /\ UNCHANGED next_handler
  /\ SingleIdle

\* concrete handle() in c's call: the level is within the threshold
CallerAccept(c) ==
  /\ callers[c].pc = "call"
  /\ Accepts(callers[c].cur, callers[c].level)
  /\ callers' = [callers EXCEPT ![c].pc = "done", ![c].result = "True"]
  /\ UNCHANGED next_handler
  /\ SingleIdle

CallerDelegateUnlinking(c) ==
  /\ callers[c].pc = "call"
  /\ ~Accepts(callers[c].cur, callers[c].level)
  /\ next_handler[callers[c].cur] # None
  /\ callers[c].depth < RecursionLimit
  /\ callers' = [callers EXCEPT ![c].cur = DelegateTarget(callers[c].cur),
                                ![c].depth = @ + 1]
  /\ next_handler' = [next_handler EXCEPT ![callers[c].cur] = None]
  /\ SingleIdle

\* super().handle() in c's call passes the request to the successor
CallerDelegate(c) ==
  /\ callers[c].pc = "call"
  /\ ~Accepts(callers[c].cur, callers[c].level)
  /\ next_handler[callers[c].cur] # None
  /\ callers[c].depth < RecursionLimit
  /\ callers' = [callers EXCEPT ![c].cur = DelegateTarget(callers[c].cur),
                                ![c].depth = @ + 1]
  /\ UNCHANGED next_handler
  /\ SingleIdle

\* the successor call in c's call exceeds the recursion limit
CallerRecursionError(c) ==
  /\ callers[c].pc = "call"
  /\ ~Accepts(callers[c].cur, callers[c].level)
  /\ next_handler[callers[c].cur] # None
  /\ callers[c].depth >= RecursionLimit
  /\ callers' = [callers EXCEPT ![c].pc = "done",
                                ![c].result = "RecursionError"]
  /\ UNCHANGED next_handler
  /\ SingleIdle

\* super().handle() in c's call with no successor
CallerUnhandled(c) ==
  /\ callers[c].pc = "call"
  /\ ~Accepts(callers[c].cur, callers[c].level)
  /\ next_handler[callers[c].cur] = None
  /\ callers' = [callers EXCEPT ![c].pc = "done",
                                ![c].result = UnhandledResult]
  /\ UNCHANGED next_handler
  /\ SingleIdle

\* c's call has returned
CallerReturn(c) ==
  /\ callers[c].pc = "done"
  /\ callers' = [callers EXCEPT ![c] = IdleCall]
  /\ UNCHANGED next_handler
  /\ SingleIdle

(* ========================== command pattern ============================ *)

\* living_room_light, kitchen_light
Lights == {"living_room", "kitchen"}

LightOnCommand(l) == [kind |-> "LightOnCommand", light |-> l, commands |-> <<>>]

LightOffCommand(l) == [kind |-> "LightOffCommand", light |-> l, commands |-> <<>>]

LightCommands ==
  {LightOnCommand(l) : l \in Lights} \cup {LightOffCommand(l) : l \in Lights}

MacroCommand(cs) == [kind |-> "MacroCommand", light |-> None, commands |-> cs]

\* member lists of the macros: light commands, up to MaxMacroLen of them
MemberLists == UNION {[1..n -> LightCommands] : n \in 0..MaxMacroLen}

Commands == LightCommands \cup {MacroCommand(cs) : cs \in MemberLists}

turn_on(s, l) == [s EXCEPT ![l] = TRUE]

turn_off(s, l) == [s EXCEPT ![l] = FALSE]

Call(m, c) == [m |-> m, c |-> c]

Noted(st, m, c) == [st EXCEPT !.calls = Append(@, Call(m, c))]

identity(s) == s

\* reversed(self.commands)
reversed(s) == [i \in 1..Len(s) |-> s[Len(s) + 1 - i]]

RECURSIVE execute(_, _)
RECURSIVE undo(_, _)
RECURSIVE ExecuteEach(_, _)
RECURSIVE UndoEach(_, _)
RECURSIVE ExecuteEachUndoing(_, _)

ExecuteEachUndoing(cs, st) ==
  IF cs = <<>> THEN st ELSE ExecuteEachUndoing(Tail(cs), undo(Head(cs), st))

\* for command in cs: command.execute()
ExecuteEach(cs, st) ==
  IF cs = <<>> THEN st ELSE ExecuteEach(Tail(cs), execute(Head(cs), st))

\* for command in cs: command.undo()
UndoEach(cs, st) ==
  IF cs = <<>> THEN st ELSE UndoEach(Tail(cs), undo(Head(cs), st))

\* c.execute() on st = [is_on, calls]
execute(c, st) ==
  CASE c.kind = "LightOnCommand" ->
         [Noted(st, "execute", c) EXCEPT !.is_on = turn_on(@, c.light)]
    [] c.kind = "LightOffCommand" ->
         [Noted(st, "execute", c) EXCEPT !.is_on = turn_off(@, c.light)]
    [] c.kind = "MacroCommand" ->
         ExecuteEach(c.commands, Noted(st, "execute", c))

\* c.undo() on st = [is_on, calls]
undo(c, st) ==
  CASE c.kind = "LightOnCommand" ->
         [Noted(st, "undo", c) EXCEPT !.is_on = turn_off(@, c.light)]
    [] c.kind = "LightOffCommand" ->
         [Noted(st, "undo", c) EXCEPT !.is_on = turn_on(@, c.light)]
    [] c.kind = "MacroCommand" ->
         UndoEach(reversed(c.commands), Noted(st, "undo", c))

Fresh == [is_on |-> is_on, calls |-> <<>>]

NothingToUndo == <<"Nothing to undo.">>

Undoing(c) == <<"Undoing:", c.kind>>

pushed_twice(h, c) == Append(Append(h, c), c)

\* self.history.append(command)
pushed(h, c) == Append(h, c)

bottom(h) == h[1]

\* the command self.history.pop() returns
top(h) == h[Len(h)]

\* self.history after pop()
popped(h) == SubSeq(h, 1, Len(h) - 1)

\* remote.press_button(c)
press_button(c) ==
  /\ is_on' = execute(c, Fresh).is_on
  /\ calls' = execute(c, Fresh).calls
  /\ history' = pushed(history, c)
  /\ out' = <<>>
  /\ net' = net + 1

\* the test "if self.history"
hasEntries(h) == h # <<>>

press_undo_unguarded ==
  IF hasEntries(history)
  THEN /\ history' = popped(history)
       /\ out' = Undoing(top(history))
       /\ is_on' = undo(top(history), Fresh).is_on
       /\ calls' = undo(top(history), Fresh).calls
       /\ net' = net - 1
  ELSE /\ out' = <<"IndexError: pop from empty list">>
       /\ calls' = <<>>
       /\ UNCHANGED <<is_on, history, net>>

\* remote.press_undo()
press_undo ==
  IF hasEntries(history)
  THEN /\ history' = popped(history)
       /\ out' = Undoing(top(history))
       /\ is_on' = undo(top(history), Fresh).is_on
       /\ calls' = undo(top(history), Fresh).calls
       /\ net' = net - 1
  ELSE /\ out' = NothingToUndo
       /\ calls' = <<>>
       /\ UNCHANGED <<is_on, history, net>>

\* number of execute() calls c.execute() makes
Weight(c) == 1 + Len(c.commands)

RECURSIVE Work(_)
\* number of execute() calls the entries of h stand for
Work(h) == IF h = <<>> THEN 0 ELSE Weight(Head(h)) + Work(Tail(h))

\* the runs explored: the history's commands stay within MaxExecutes calls
Explored(c) == Work(history) + Weight(c) <= MaxExecutes

CmdInit ==
  /\ is_on = [l \in Lights |-> FALSE]
  /\ history = <<>>
  /\ calls = <<>>
  /\ out = <<>>
  /\ net = 0

RoundInit ==
  /\ orig = [l \in Lights |-> FALSE]
  /\ phase = "idle"
  /\ npressed = 0

PressButton(c) ==
  /\ Explored(c)
  /\ press_button(c)
  /\ UNCHANGED chainVars
  /\ UNCHANGED laterVars
  /\ UNCHANGED roundVars

PressUndo ==
  /\ press_undo
  /\ UNCHANGED chainVars
  /\ UNCHANGED laterVars
  /\ UNCHANGED roundVars

(* -------- N presses from an empty history followed by N undos ---------- *)

RoundPress(c) ==
  /\ phase \in {"idle", "pressing"}
  /\ Explored(c)
  /\ press_button(c)
  /\ orig' = IF phase = "idle" THEN is_on ELSE orig
  /\ npressed' = IF phase = "idle" THEN 1 ELSE npressed + 1
  /\ phase' = "pressing"
  /\ UNCHANGED chainVars
  /\ UNCHANGED laterVars

RoundUndo ==
  /\ phase \in {"pressing", "undoing"}
  /\ history # <<>>
  /\ press_undo
  /\ phase' = "undoing"
  /\ UNCHANGED <<orig, npressed>>
  /\ UNCHANGED chainVars
  /\ UNCHANGED laterVars

RoundEnd ==
  /\ phase = "undoing"
  /\ history = <<>>
  /\ phase' = "idle"
  /\ UNCHANGED <<orig, npressed>>
  /\ UNCHANGED cmdVars
  /\ UNCHANGED chainVars
  /\ UNCHANGED laterVars

(* ======================== ThreadSafeSingleton ========================== *)

\* range(3): the threads demonstrate_thread_safe starts
NumThreads == 3

Workers == 0..(NumThreads - 1)

\* the main thread, which constructs after the join
Main == NumThreads

Threads == Workers \cup {Main}

\* the argument of each thread's constructor calls
Value(t) ==
  IF t = Main THEN "default"
  ELSE <<"value_0", "value_1", "value_2">>[t + 1]

\* constructor calls each thread makes: one per worker, s1 and s2 for main
CallsOf(t) == IF t = Main THEN 2 ELSE 1

NewObject == [initialized |-> FALSE, value |-> "unset"]

TsInit ==
  /\ ts_instance = 0
  /\ ts_lock = FALSE
  /\ ts_objs = <<>>
  /\ ts_thr = [t \in Threads |-> [pc |-> "start", obj |-> 0, left |-> CallsOf(t)]]
  /\ ts_inits = 0

TsIdle ==
  /\ UNCHANGED <<chainVars, cmdVars, roundVars>>
  /\ UNCHANGED <<callersVars, sgVars, proxyVars, bankVars, empVars,
               aioVars>>

TsGoto(t, to) == ts_thr' = [ts_thr EXCEPT ![t].pc = to]

\* thread.start() / the join before main's calls: t calls ThreadSafeSingleton(v)
TsCall(t) ==
  /\ ts_thr[t].pc = "start"
  /\ t = Main => \A w \in Workers : ts_thr[w].pc = "done"
  /\ ts_thr' = [ts_thr EXCEPT ![t].pc = "new_check", ![t].left = @ - 1]
  /\ UNCHANGED <<ts_instance, ts_lock, ts_objs, ts_inits>>
  /\ TsIdle

\* __new__: the first "if cls._instance is None"
TsNewCheck(t) ==
  /\ ts_thr[t].pc = "new_check"
  /\ TsGoto(t, IF ts_instance = 0 THEN "acquire" ELSE "new_return")
  /\ UNCHANGED <<ts_instance, ts_lock, ts_objs, ts_inits>>
  /\ TsIdle

\* __new__: "with cls._lock" entered
TsAcquire(t) ==
  /\ ts_thr[t].pc = "acquire"
  /\ ~ts_lock
  /\ ts_lock' = TRUE
  /\ TsGoto(t, "second_check")
  /\ UNCHANGED <<ts_instance, ts_objs, ts_inits>>
  /\ TsIdle

SecondCheckSkipped(inst) == TRUE

\* __new__: the "if cls._instance is None" inside the lock
SecondCheck(inst) == inst = 0

TsSecondCheck(t) ==
  /\ ts_thr[t].pc = "second_check"
  /\ TsGoto(t, IF SecondCheck(ts_instance) THEN "create" ELSE "release")
  /\ UNCHANGED <<ts_instance, ts_lock, ts_objs, ts_inits>>
  /\ TsIdle

\* __new__: cls._instance = super().__new__(cls)
TsCreate(t) ==
  /\ ts_thr[t].pc = "create"
  /\ ts_objs' = Append(ts_objs, NewObject)
  /\ ts_instance' = Len(ts_objs) + 1
  /\ TsGoto(t, "release")
  /\ UNCHANGED <<ts_lock, ts_inits>>
  /\ TsIdle

\* __new__: "with cls._lock" left
TsRelease(t) ==
  /\ ts_thr[t].pc = "release"
  /\ ts_lock' = FALSE
  /\ TsGoto(t, "new_return")
  /\ UNCHANGED <<ts_instance, ts_objs, ts_inits>>
  /\ TsIdle

\* __new__: return cls._instance
TsNewReturn(t) ==
  /\ ts_thr[t].pc = "new_return"
  /\ ts_thr' = [ts_thr EXCEPT ![t].pc = "init_check", ![t].obj = ts_instance]
  /\ UNCHANGED <<ts_instance, ts_lock, ts_objs, ts_inits>>
  /\ TsIdle

\* __init__: if not hasattr(self, 'initialized')
TsInitCheck(t) ==
  /\ ts_thr[t].pc = "init_check"
  /\ TsGoto(t, IF ~ts_objs[ts_thr[t].obj].initialized THEN "set_value"
                ELSE "returned")
  /\ UNCHANGED <<ts_instance, ts_lock, ts_objs, ts_inits>>
  /\ TsIdle

\* __init__: self.value = value
TsSetValue(t) ==
  /\ ts_thr[t].pc = "set_value"
  /\ ts_objs' = [ts_objs EXCEPT ![ts_thr[t].obj].value = Value(t)]
  /\ ts_inits' = ts_inits + 1
  /\ TsGoto(t, "set_initialized")
  /\ UNCHANGED <<ts_instance, ts_lock>>
  /\ TsIdle

\* __init__: self.initialized = True
TsSetInitialized(t) ==
  /\ ts_thr[t].pc = "set_initialized"
  /\ ts_objs' = [ts_objs EXCEPT ![ts_thr[t].obj].initialized = TRUE]
  /\ TsGoto(t, "returned")
  /\ UNCHANGED <<ts_instance, ts_lock, ts_inits>>
  /\ TsIdle

\* the constructor call has returned; the thread goes on to its next call
TsReturned(t) ==
  /\ ts_thr[t].pc = "returned"
  /\ TsGoto(t, IF ts_thr[t].left > 0 THEN "start" ELSE "done")
  /\ UNCHANGED <<ts_instance, ts_lock, ts_objs, ts_inits>>
  /\ TsIdle

(* ============ Logger, DatabaseConnection, ConfigurationManager ========= *)

\* names passed to Logger(...); "DefaultLogger" is the default
LoggerNames == {"AppLogger", "DifferentName", "DefaultLogger"}

\* arguments passed to DatabaseConnection(...); the last are the defaults
DbArgs == {[host |-> "prod-db", port |-> 5432],
           [host |-> "dev-db", port |-> 3306],
           [host |-> "localhost", port |-> 5432]}

\* files passed to ConfigurationManager(...); "config.json" is the default
ConfigFiles == {"app_config.json", "other_config.json", "config.json"}

Queries == {"SELECT * FROM users", "SELECT 1"}

NoArgs == [host |-> "unset", port |-> 0]

SgInit ==
  /\ lg = [instance |-> 0, objs |-> <<>>, ret |-> 0,
           called |-> FALSE, first |-> "unset", lastarg |-> "unset"]
  /\ db = [instance |-> 0, objs |-> <<>>, ret |-> 0,
           called |-> FALSE, first |-> NoArgs, lastarg |-> NoArgs,
           last |-> "none", out |-> [op |-> "none", ret |-> <<>>]]
  /\ cfg = [instance |-> 0, objs |-> <<>>, ret |-> 0,
            called |-> FALSE, first |-> "unset", lastarg |-> "unset"]

SgIdle ==
  /\ UNCHANGED <<chainVars, cmdVars, roundVars>>
  /\ UNCHANGED <<callersVars, tsVars, proxyVars, bankVars, empVars,
               aioVars>>

\* the ghost fields: the arguments of the first and of the latest call
Called(r, a) ==
  [r EXCEPT !.first = IF r.called THEN r.first ELSE a, !.lastarg = a,
            !.called = TRUE]

\* "cls in cls._instances" / "cls in instances"
InDict(inst) == inst # 0

\* SingletonMeta.__call__ for Logger(name)
LoggerCall(name) ==
  /\ lg' = IF ~InDict(lg.instance)
           THEN [Called(lg, name) EXCEPT
                   !.objs = Append(lg.objs, [name |-> name]),
                   !.instance = Len(lg.objs) + 1,
                   !.ret = Len(lg.objs) + 1]
           ELSE [Called(lg, name) EXCEPT !.ret = lg.instance]
  /\ UNCHANGED <<db, cfg>>
  /\ SgIdle

\* get_instance of the singleton decorator for ConfigurationManager(file)
CfgCall(cf) ==
  /\ cfg' = IF ~InDict(cfg.instance)
            THEN [Called(cfg, cf) EXCEPT
                    !.objs = Append(cfg.objs, [config_file |-> cf]),
                    !.instance = Len(cfg.objs) + 1,
                    !.ret = Len(cfg.objs) + 1]
            ELSE [Called(cfg, cf) EXCEPT !.ret = cfg.instance]
  /\ UNCHANGED <<lg, db>>
  /\ SgIdle

\* the object super().__new__(cls) returns: no attribute set yet
BareConnection ==
  [initialized |-> FALSE, host |-> "unset", port |-> 0, connected |-> FALSE]

\* DatabaseConnection.__new__ on r = db
DbNew(r) ==
  IF r.instance = 0
  THEN [r EXCEPT !.objs = Append(r.objs, BareConnection),
                 !.instance = Len(r.objs) + 1]
  ELSE r

NeedsInitAlways(o) == TRUE

\* not hasattr(self, 'initialized')
NeedsInit(o) == ~o.initialized

\* DatabaseConnection.__init__(host, port) on object o
DbInitObject(o, a) ==
  IF NeedsInit(o)
  THEN [initialized |-> TRUE, host |-> a.host, port |-> a.port,
        connected |-> FALSE]
  ELSE o

\* DatabaseConnection(host, port): __new__, then __init__ on its result
DbCall(a) ==
  /\ LET r == DbNew(Called(db, a))
         o == r.instance
     IN  db' = [r EXCEPT !.objs[o] = DbInitObject(r.objs[o], a),
                         !.ret = o,
                         !.out = [op |-> "construct", ret |-> <<>>]]
  /\ UNCHANGED <<lg, cfg>>
  /\ SgIdle

\* db.connect()
DbConnect ==
  /\ db.ret # 0
  /\ db' = IF ~db.objs[db.ret].connected
           THEN [db EXCEPT !.objs[db.ret].connected = TRUE,
                           !.last = "connect",
                           !.out = [op |-> "connect",
                                    ret |-> <<"Connected successfully!">>]]
           ELSE [db EXCEPT !.last = "connect",
                           !.out = [op |-> "connect",
                                    ret |-> <<"Already connected">>]]
  /\ UNCHANGED <<lg, cfg>>
  /\ SgIdle

\* db.disconnect()
DbDisconnect ==
  /\ db.ret # 0
  /\ db' = IF db.objs[db.ret].connected
           THEN [db EXCEPT !.objs[db.ret].connected = FALSE,
                           !.last = "disconnect",
                           !.out = [op |-> "disconnect",
                                    ret |-> <<"Disconnected">>]]
           ELSE [db EXCEPT !.last = "disconnect",
                           !.out = [op |-> "disconnect",
                                    ret |-> <<"Not connected">>]]
  /\ UNCHANGED <<lg, cfg>>
  /\ SgIdle

NotConnectedError == <<"Error: Not connected to database">>

Executed(q) == <<"Executed:", q, "-> Result: Mock data">>

QueryResultUnchecked(o, q) == Executed(q)

\* what execute_query(q) returns on object o
QueryResult(o, q) == IF ~o.connected THEN NotConnectedError ELSE Executed(q)

\* db.execute_query(q)
DbExecuteQuery(q) ==
  /\ db.ret # 0
  /\ db' = [db EXCEPT !.out = [op |-> "execute_query",
                               ret |-> QueryResult(db.objs[db.ret], q)]]
  /\ UNCHANGED <<lg, cfg>>
  /\ SgIdle

(* ============================== proxies ================================ *)

\* characters of the strings written: a letter, "\r" and "\n"
Chars == {"a", "CR", "LF"}

Data == UNION {[1..n -> Chars] : n \in 0..MaxDataLen}

RECURSIVE universal_newlines(_)
\* open(filename, 'r'): reading in text mode turns "\r\n" and "\r" into "\n"
universal_newlines(d) ==
  IF d = <<>> THEN <<>>
  ELSE IF Head(d) = "CR"
       THEN IF Len(d) >= 2 /\ d[2] = "LF"
            THEN <<"LF">> \o universal_newlines(Tail(Tail(d)))
            ELSE <<"LF">> \o universal_newlines(Tail(d))
       ELSE <<Head(d)>> \o universal_newlines(Tail(d))

\* RealFileDataSource.read_data on file f
RealRead(f) == IF f.exists THEN universal_newlines(f.data) ELSE <<>>

\* RealFileDataSource.write_data(d): the file after it ("\n" is written as
\* it is where os.linesep is "\n")
RealWrite(f, d) == [exists |-> TRUE, data |-> d]

EmptyCache == [has |-> FALSE, data |-> <<>>]

AccessDenied == <<"Access denied">>

ProxyInit ==
  /\ file = [exists |-> FALSE, data |-> <<>>]
  /\ sm = [constructed |-> FALSE, cache |-> EmptyCache, log |-> <<>>,
           lastop |-> "none", ret |-> <<>>, expected |-> <<>>]
  /\ lz = [real |-> 0, created |-> 0, used |-> 0, lastop |-> "none",
           ret |-> <<>>]
  /\ pr = [role |-> "admin", lastop |-> "none", ret |-> <<>>,
           delegated |-> FALSE, arg |-> <<>>]

ProxyIdle ==
  /\ UNCHANGED <<chainVars, cmdVars, roundVars>>
  /\ UNCHANGED <<callersVars, tsVars, sgVars, bankVars, empVars,
               aioVars>>

(* ------------------------- SmartFileDataSource ------------------------- *)

\* a write through another datasource on the file, before the smart proxy
\* is made (protected_admin.write_data in the main block)
OtherWrite(d) ==
  /\ ~sm.constructed
  /\ file' = RealWrite(file, d)
  /\ UNCHANGED <<sm, lz, pr>>
  /\ ProxyIdle

\* SmartFileDataSource(RealFileDataSource(filename))
SmartConstruct ==
  /\ ~sm.constructed
  /\ sm' = [constructed |-> TRUE, cache |-> EmptyCache, log |-> <<>>,
            lastop |-> "none", ret |-> <<>>, expected |-> RealRead(file)]
  /\ UNCHANGED <<file, lz, pr>>
  /\ ProxyIdle

\* _log_access(operation, source)
Logged(entries, operation, source) == Append(entries, <<operation, source>>)

\* smart_proxy.read_data()
SmartRead ==
  /\ sm.constructed
  /\ Len(sm.log) < MaxLog
  /\ sm' = IF sm.cache.has
           THEN [sm EXCEPT !.log = Logged(@, "read", "cache"),
                           !.lastop = "read",
                           !.ret = sm.cache.data]
           ELSE [sm EXCEPT !.cache = [has |-> TRUE, data |-> RealRead(file)],
                           !.log = Logged(@, "read", "fresh"),
                           !.lastop = "read",
                           !.ret = RealRead(file)]
  /\ UNCHANGED <<file, lz, pr>>
  /\ ProxyIdle

kept(cache) == cache

\* self._cache.clear()
cleared(cache) == EmptyCache

\* smart_proxy.write_data(d)
SmartWrite(d) ==
  /\ sm.constructed
  /\ Len(sm.log) < MaxLog
  /\ file' = RealWrite(file, d)
  /\ sm' = [sm EXCEPT !.cache = cleared(@),
                      !.log = Logged(@, "write", "direct"),
                      !.lastop = "write",
                      !.expected = d]
  /\ UNCHANGED <<lz, pr>>
  /\ ProxyIdle

(* -------------------------- LazyFileDataSource ------------------------- *)

RealMissingAlways(r) == TRUE

\* self._real_datasource is None
RealMissing(r) == r = 0

\* _get_real_datasource() on z = lz
GetReal(z) ==
  IF RealMissing(z.real)
  THEN [z EXCEPT !.real = z.created + 1, !.created = z.created + 1,
                 !.used = z.created + 1]
  ELSE [z EXCEPT !.used = z.real]

\* lazy_proxy.read_data()
LazyRead ==
  /\ lz' = [GetReal(lz) EXCEPT !.lastop = "read", !.ret = RealRead(file)]
  /\ UNCHANGED <<file, sm, pr>>
  /\ ProxyIdle

\* lazy_proxy.write_data(d)
LazyWrite(d) ==
  /\ lz' = [GetReal(lz) EXCEPT !.lastop = "write"]
  /\ file' = RealWrite(file, d)
  /\ UNCHANGED <<sm, pr>>
  /\ ProxyIdle

(* ------------------------ ProtectedFileDataSource ---------------------- *)

\* user roles the proxies are made with
Roles == {"admin", "editor", "guest", "Admin", ""}

\* self.allowed_roles
allowed_roles == {"admin", "editor"}

everyone_allowed(role) == TRUE

\* _check_permission(operation)
check_permission(role) == role \in allowed_roles

\* ProtectedFileDataSource(real_ds, role)
ProtectedConstruct(role) ==
  /\ pr' = [role |-> role, lastop |-> "none", ret |-> <<>>,
            delegated |-> FALSE, arg |-> <<>>]
  /\ UNCHANGED <<file, sm, lz>>
  /\ ProxyIdle

\* protected.read_data()
ProtectedRead ==
  /\ pr' = IF check_permission(pr.role)
           THEN [pr EXCEPT !.lastop = "read", !.delegated = TRUE,
                           !.ret = RealRead(file)]
           ELSE [pr EXCEPT !.lastop = "read", !.delegated = FALSE,
                           !.ret = AccessDenied]
  /\ UNCHANGED <<file, sm, lz>>
  /\ ProxyIdle

\* protected.write_data(d)
ProtectedWrite(d) ==
  /\ IF check_permission(pr.role)
     THEN /\ file' = RealWrite(file, d)
          /\ pr' = [pr EXCEPT !.lastop = "write", !.delegated = TRUE,
                              !.arg = d]
     ELSE /\ file' = file
          /\ pr' = [pr EXCEPT !.lastop = "write", !.delegated = FALSE,
                              !.arg = d]
  /\ UNCHANGED <<sm, lz>>
  /\ ProxyIdle

(* ============================ BankAccount ============================== *)

Amounts == (-MaxAmount)..MaxAmount

\* no BankAccount has been made yet
BankInit ==
  acct = [exists |-> FALSE, balance |-> 0, before |-> 0,
          op |-> "none", arg |-> 0, raised |-> "no"]

BankIdle ==
  /\ UNCHANGED <<chainVars, cmdVars, roundVars>>
  /\ UNCHANGED <<callersVars, tsVars, sgVars, proxyVars, empVars,
               aioVars>>

\* the call op(arg) on account a ended with balance b and outcome r
Outcome(a, op, arg, b, r) ==
  [exists |-> TRUE, balance |-> b, before |-> a.balance,
   op |-> op, arg |-> arg, raised |-> r]

\* BankAccount(account_holder, initial_balance)
BankConstruct(initial) ==
  /\ ~acct.exists
  /\ acct' = [exists |-> TRUE, balance |-> initial, before |-> initial,
              op |-> "__init__", arg |-> initial, raised |-> "no"]
  /\ BankIdle

\* account.balance = amount
SetBalance(amount) ==
  /\ acct.exists
  /\ acct' = IF amount < 0
             THEN Outcome(acct, "balance", amount, acct.balance,
                          "Balance cannot be negative")
             ELSE Outcome(acct, "balance", amount, amount, "no")
  /\ BankIdle

\* account.deposit(amount)
Deposit(amount) ==
  /\ acct.exists
  /\ acct.balance + amount <= MaxBalance
  /\ acct' = IF amount <= 0
             THEN Outcome(acct, "deposit", amount, acct.balance,
                          "Deposit amount must be positive")
             ELSE Outcome(acct, "deposit", amount, acct.balance + amount, "no")
  /\ BankIdle

\* account.withdraw(amount) without the check against the balance
WithdrawUnchecked(amount) ==
  /\ acct.exists
  /\ acct' = IF amount <= 0
             THEN Outcome(acct, "withdraw", amount, acct.balance,
                          "Withdrawal amount must be positive")
             ELSE Outcome(acct, "withdraw", amount, acct.balance - amount, "no")
  /\ BankIdle

\* account.withdraw(amount)
Withdraw(amount) ==
  /\ acct.exists
  /\ acct' = IF amount <= 0
             THEN Outcome(acct, "withdraw", amount, acct.balance,
                          "Withdrawal amount must be positive")
             ELSE IF amount > acct.balance
             THEN Outcome(acct, "withdraw", amount, acct.balance,
                          "Insufficient funds")
             ELSE Outcome(acct, "withdraw", amount, acct.balance - amount, "no")
  /\ BankIdle

(* ======================= numbers of the Employee ======================= *)
\* A natural number is the sequence of its binary digits, lowest first, with
\* no leading zero (<<>> is 0).  A Python number is a record: value
\* (+/-) mant * 2^exp, float telling an int from a float.  An int has exp 0;
\* a float has an odd mant (or is zero) of at most Precision digits.

RECURSIVE NatBits(_)
NatBits(n) == IF n = 0 THEN <<>> ELSE <<n % 2>> \o NatBits(n \div 2)

\* arithmetic goes limb by limb, a limb being LimbDigits binary digits
LimbDigits == 15
Base == 2^LimbDigits

Digit(a, i) == IF i \in 1..Len(a) THEN a[i] ELSE 0

RECURSIVE LimbValue(_, _, _)
LimbValue(a, from, count) ==
  IF count = 0
  THEN 0
  ELSE Digit(a, from) + 2 * LimbValue(a, from + 1, count - 1)

\* the limbs of a, lowest first
ToLimbs(a) ==
  [j \in 1..((Len(a) + LimbDigits - 1) \div LimbDigits) |->
     LimbValue(a, LimbDigits * (j - 1) + 1, LimbDigits)]

\* the binary digits of limbs l, without leading zeros
ToBits(l) ==
  LET raw == [i \in 1..(LimbDigits * Len(l)) |->
                (l[(i - 1) \div LimbDigits + 1]
                   \div 2^((i - 1) % LimbDigits)) % 2]
      ones == {i \in 1..Len(raw) : raw[i] = 1}
  IN  IF ones = {}
      THEN <<>>
      ELSE SubSeq(raw, 1, CHOOSE i \in ones : \A j \in ones : j <= i)

Rest(l) == IF l = <<>> THEN <<>> ELSE Tail(l)

RECURSIVE AddLimbs(_, _, _)
AddLimbs(a, b, c) ==
  IF a = <<>> /\ b = <<>>
  THEN IF c = 0 THEN <<>> ELSE <<c>>
  ELSE LET t == Digit(a, 1) + Digit(b, 1) + c
       IN  <<t % Base>> \o AddLimbs(Rest(a), Rest(b), t \div Base)

\* limbs a times the one limb d, plus c
RECURSIVE ScaleLimbs(_, _, _)
ScaleLimbs(a, d, c) ==
  IF a = <<>>
  THEN IF c = 0 THEN <<>> ELSE <<c>>
  ELSE LET t == a[1] * d + c
       IN  <<t % Base>> \o ScaleLimbs(Tail(a), d, t \div Base)

RECURSIVE MulLimbs(_, _)
MulLimbs(a, b) ==
  IF a = <<>>
  THEN <<>>
  ELSE AddLimbs(ScaleLimbs(b, a[1], 0), <<0>> \o MulLimbs(Tail(a), b), 0)

\* floor(a / d) for a small divisor d, as <<quotient, remainder>>: long
\* division from the highest limb down
RECURSIVE DivLimbs(_, _)
DivLimbs(a, d) ==
  IF a = <<>>
  THEN <<(<<>>), 0>>
  ELSE LET high == DivLimbs(Tail(a), d)
           r == high[2] * Base + a[1]
       IN  <<(<<r \div d>>) \o high[1], r % d>>

Add(a, b) == ToBits(AddLimbs(ToLimbs(a), ToLimbs(b), 0))
Mul(a, b) == ToBits(MulLimbs(ToLimbs(a), ToLimbs(b)))
DivSmall(a, d) ==
  LET qr == DivLimbs(ToLimbs(a), d) IN <<ToBits(qr[1]), qr[2]>>

\* a * 2^k
ShiftLeft(a, k) == IF a = <<>> THEN a ELSE [i \in 1..k |-> 0] \o a

LessNat(a, b) ==
  \/ Len(a) < Len(b)
  \/ /\ Len(a) = Len(b)
     /\ \E i \in 1..Len(a) :
          /\ a[i] < b[i]
          /\ \A j \in (i+1)..Len(a) : a[j] = b[j]

\* the double 0.9 is NineTenthsDigits * 2^-Precision
NineTenthsDigits ==
  <<1,0,1,1, 0,0,1,1, 0,0,1,1, 0,0,1,1, 0,0,1,1, 0,0,1,1, 0,0,1,1,
    0,0,1,1, 0,0,1,1, 0,0,1,1, 0,0,1,1, 0,0,1,1, 0,0,1,1, 1>>

\* significant binary digits of a double
Precision == Len(NineTenthsDigits)

\* a float from value mant * 2^exp: trailing zero digits go to the exponent
Float(neg, mant, exp) ==
  LET ones == {i \in 1..Len(mant) : mant[i] = 1}
  IN  IF ones = {}
      THEN [neg |-> FALSE, mant |-> <<>>, exp |-> 0, float |-> TRUE]
      ELSE LET first == CHOOSE i \in ones : \A j \in ones : i <= j
           IN  [neg |-> neg, mant |-> SubSeq(mant, first, Len(mant)),
                exp |-> exp + first - 1, float |-> TRUE]

\* mant * 2^exp (plus a nonzero rest below the last digit if sticky) rounded
\* to the nearest double, ties to even
Round(neg, mant, exp, sticky) ==
  IF Len(mant) <= Precision
  THEN Float(neg, mant, exp)
  ELSE LET k == Len(mant) - Precision
           leading == SubSeq(mant, k + 1, Len(mant))
           half == mant[k] = 1
           below == sticky \/ \E i \in 1..(k-1) : mant[i] = 1
           up == half /\ (below \/ leading[1] = 1)
       IN  Float(neg, IF up THEN Add(leading, <<1>>) ELSE leading, exp + k)

PyInt(i) ==
  [neg |-> i < 0, mant |-> NatBits(IF i < 0 THEN -i ELSE i), exp |-> 0,
   float |-> FALSE]

Zero == PyInt(0)

\* float(x)
ToFloat(x) == IF x.float THEN x ELSE Round(x.neg, x.mant, 0, FALSE)

\* x * y on floats
FloatMul(x, y) ==
  Round(x.neg # y.neg, Mul(x.mant, y.mant), x.exp + y.exp, FALSE)

\* x + y on floats that are not negative
FloatAdd(x, y) ==
  LET e == IF x.exp < y.exp THEN x.exp ELSE y.exp
  IN  Round(FALSE, Add(ShiftLeft(x.mant, x.exp - e),
                       ShiftLeft(y.mant, y.exp - e)), e, FALSE)

\* i / d on positive ints i and d (true division)
TrueDiv(i, d) ==
  LET k == Precision + 2 + Len(NatBits(d))
      qr == DivSmall(ShiftLeft(NatBits(i), k), d)
  IN  Round(FALSE, qr[1], -k, qr[2] # 0)

\* x < y on numbers, exactly
Less(x, y) ==
  LET e == IF x.exp < y.exp THEN x.exp ELSE y.exp
      xm == ShiftLeft(x.mant, x.exp - e)
      ym == ShiftLeft(y.mant, y.exp - e)
  IN  IF x.neg /\ y.neg THEN LessNat(ym, xm)
      ELSE IF x.neg THEN TRUE
      ELSE IF y.neg THEN FALSE
      ELSE LessNat(xm, ym)

NineTenths == Float(FALSE, NineTenthsDigits, -Precision)

(* ============================== Employee =============================== *)

\* the least int that a double cannot hold, 2^Precision + 1
BeyondDouble ==
  [neg |-> FALSE, float |-> FALSE, exp |-> 0,
   mant |-> [i \in 1..(Precision + 1) |->
               IF i \in {1, Precision + 1} THEN 1 ELSE 0]]

\* the int NineTenthsDigits
NineTenthsOfDouble ==
  [neg |-> FALSE, float |-> FALSE, exp |-> 0, mant |-> NineTenthsDigits]

\* salaries passed to Employee(name, salary) and assigned to emp.salary
Salaries ==
  {PyInt(i) : i \in (-1)..MaxSalary} \cup {BeyondDouble, NineTenthsOfDouble}

\* percentages passed to give_raise
Percentages == {-5, 0, 5, 100}

\* no Employee has been made yet
EmpInit ==
  emp = [exists |-> FALSE, salary |-> Zero, before |-> Zero,
         op |-> "none", arg |-> Zero, percentage |-> 0, raised |-> "no",
         raises |-> 0]

EmpIdle ==
  /\ UNCHANGED <<chainVars, cmdVars, roundVars>>
  /\ UNCHANGED <<callersVars, tsVars, sgVars, proxyVars, bankVars,
               aioVars>>

\* Employee(name, salary)
EmpConstruct(salary) ==
  /\ ~emp.exists
  /\ emp' = [emp EXCEPT !.exists = TRUE, !.salary = salary,
                        !.before = salary, !.op = "__init__", !.arg = salary]
  /\ EmpIdle

\* self.__salary * 0.9
floor_of_decrease(salary) == FloatMul(ToFloat(salary), NineTenths)

\* the salary setter's verdict on new_salary: "no" if it raises nothing
setter_raises(salary, new_salary) ==
  IF Less(new_salary, Zero)
  THEN "Salary cannot be negative"
  ELSE IF Less(new_salary, floor_of_decrease(salary))
  THEN "Salary decrease cannot exceed 10%"
  ELSE "no"

\* the Employee after the salary setter ran on new_salary
set_salary(e, new_salary) ==
  LET r == setter_raises(e.salary, new_salary)
  IN  [e EXCEPT !.before = e.salary, !.raised = r,
                !.salary = IF r = "no" THEN new_salary ELSE e.salary]

\* emp.salary = new_salary
SetSalary(new_salary) ==
  /\ emp.exists
  /\ emp' = [set_salary(emp, new_salary) EXCEPT
               !.op = "salary", !.arg = new_salary, !.percentage = 0]
  /\ EmpIdle

\* self.__salary * (1 + percentage / 100)
raised_salary(salary, percentage) ==
  FloatMul(ToFloat(salary),
           FloatAdd(ToFloat(PyInt(1)), TrueDiv(percentage, 100)))

\* emp.give_raise(percentage)
GiveRaise(percentage) ==
  /\ emp.exists
  /\ emp.raises < MaxRaises
  /\ IF percentage <= 0
     THEN emp' = [emp EXCEPT !.op = "give_raise", !.arg = Zero,
                             !.percentage = percentage,
                             !.before = emp.salary,
                             !.raised = "Raise percentage must be positive"]
     ELSE LET new_salary == raised_salary(emp.salary, percentage)
              e == set_salary(emp, new_salary)
          IN  emp' = [e EXCEPT !.op = "give_raise", !.arg = new_salary,
                               !.percentage = percentage,
                               !.raises = IF e.raised = "no"
                                          THEN emp.raises + 1 ELSE emp.raises]
  /\ EmpIdle

(* ============================ async / await ============================ *)

\* the arguments of gather, in order
TaskIds == <<"A", "B", "C">>
Tasks == {TaskIds[i] : i \in 1..Len(TaskIds)}

\* random.uniform(0.5, 1.5), in ticks
Delays == 1..MaxDelay

\* f"Result from {task_id}"
ResultFrom(task_id) ==
  CASE task_id = "A" -> "Result from A"
    [] task_id = "B" -> "Result from B"
    [] task_id = "C" -> "Result from C"

items == <<"data_chunk_1", "data_chunk_2", "data_chunk_3">>

\* item.upper()
upper(item) ==
  CASE item = "data_chunk_1" -> "DATA_CHUNK_1"
    [] item = "data_chunk_2" -> "DATA_CHUNK_2"
    [] item = "data_chunk_3" -> "DATA_CHUNK_3"

\* asyncio.run(demonstrate_concurrency()) is about to start
AioInit ==
  /\ fetch = [t \in Tasks |-> [pc |-> "none", wake |-> 0, result |-> None]]
  /\ ready = <<>>
  /\ aio = [pc |-> "start", now |-> 0, nfinished |-> 0, finished |-> <<>>,
            outer |-> <<>>, results |-> <<>>, item |-> 0, wake |-> 0,
            processed_items |-> <<>>]
  /\ events = <<>>

AioIdle ==
  /\ UNCHANGED <<chainVars, cmdVars, roundVars>>
  /\ UNCHANGED <<callersVars, tsVars, sgVars, proxyVars, bankVars, empVars>>

\* results = await asyncio.gather(fetch_data("A"), fetch_data("B"),
\* fetch_data("C")): a task per coroutine, each scheduled to start, in order
GatherCall ==
  /\ aio.pc = "start"
  /\ fetch' = [t \in Tasks |-> [fetch[t] EXCEPT !.pc = "created"]]
  /\ ready' = [i \in 1..Len(TaskIds) |-> <<"start", TaskIds[i]>>]
  /\ aio' = [aio EXCEPT !.pc = "gather"]
  /\ UNCHANGED events
  /\ AioIdle

\* fetch_data up to its await asyncio.sleep(delay)
FetchStart(delay) ==
  /\ ready # <<>>
  /\ Head(ready)[1] = "start"
  /\ LET t == Head(ready)[2]
     IN  /\ fetch' = [fetch EXCEPT ![t].pc = "sleeping",
                                   ![t].wake = aio.now + delay]
         /\ events' = Append(events, <<"Starting", t>>)
  /\ ready' = Tail(ready)
  /\ UNCHANGED aio
  /\ AioIdle

\* the wake-up times of the sleeps under way
Sleeping ==
  {fetch[t].wake : t \in {u \in Tasks : fetch[u].pc = "sleeping"}}
    \cup (IF aio.pc = "sleeping" THEN {aio.wake} ELSE {})

\* a sleep ending at time wake is over: it is due already, or the loop has
\* nothing ready and no other sleep ends sooner
Due(wake) ==
  \/ wake <= aio.now
  \/ ready = <<>> /\ \A w \in Sleeping : wake <= w

\* the timer of task t's sleep fires: the task is scheduled to go on
FetchTimer(t) ==
  /\ fetch[t].pc = "sleeping"
  /\ Due(fetch[t].wake)
  /\ fetch' = [fetch EXCEPT ![t].pc = "woken"]
  /\ ready' = Append(ready, <<"resume", t>>)
  /\ aio' = [aio EXCEPT !.now = IF fetch[t].wake > aio.now
                                 THEN fetch[t].wake ELSE aio.now]
  /\ UNCHANGED events
  /\ AioIdle

\* fetch_data after its sleep: it returns, and the task's done callback
\* (gather's) is scheduled
FetchComplete ==
  /\ ready # <<>>
  /\ Head(ready)[1] = "resume"
  /\ LET t == Head(ready)[2]
     IN  /\ fetch' = [fetch EXCEPT ![t].pc = "done",
                                   ![t].result = ResultFrom(t)]
         /\ events' = Append(events, <<"Completed", t>>)
         /\ ready' = Append(Tail(ready), <<"done_callback", t>>)
  /\ UNCHANGED aio
  /\ AioIdle

\* the results of the children in completion order
gathered_as_completed(children, finished) ==
  [i \in 1..Len(finished) |-> children[finished[i]].result]

\* the results of the children in argument order
gathered(children, finished) ==
  [i \in 1..Len(TaskIds) |-> children[TaskIds[i]].result]

\* gather's callback for a finished child: the last one sets gather's result
\* and schedules the awaiting coroutine
DoneCallback ==
  /\ ready # <<>>
  /\ Head(ready)[1] = "done_callback"
  /\ LET t == Head(ready)[2]
         finished == Append(aio.finished, t)
         last == aio.nfinished + 1 = Len(TaskIds)
     IN  /\ aio' = [aio EXCEPT !.nfinished = aio.nfinished + 1,
                               !.finished = finished,
                               !.outer = IF last THEN gathered(fetch, finished)
                                         ELSE aio.outer]
         /\ ready' = IF last THEN Append(Tail(ready), <<"main", "main">>)
                     ELSE Tail(ready)
  /\ UNCHANGED <<fetch, events>>
  /\ AioIdle

\* process_item(item) up to its await asyncio.sleep(0.3)
process_item_begun(a, i) ==
  [a EXCEPT !.pc = "sleeping", !.item = i, !.wake = a.now + 1]

\* demonstrate_concurrency goes on after the gather: results is assigned and
\* the loop over items calls process_item on the first item
GatherReturn ==
  /\ ready # <<>>
  /\ Head(ready)[1] = "main"
  /\ aio.pc = "gather"
  /\ aio' = process_item_begun([aio EXCEPT !.results = aio.outer], 1)
  /\ events' = events \o <<(<<"Gathered Results", "main">>),
                           (<<"Analyzing", items[1]>>)>>
  /\ ready' = Tail(ready)
  /\ UNCHANGED fetch
  /\ AioIdle

\* the timer of process_item's sleep fires
ProcessTimer ==
  /\ aio.pc = "sleeping"
  /\ Due(aio.wake)
  /\ aio' = [aio EXCEPT !.pc = "woken",
                        !.now = IF aio.wake > aio.now THEN aio.wake
                                ELSE aio.now]
  /\ ready' = Append(ready, <<"main", "main">>)
  /\ UNCHANGED <<fetch, events>>
  /\ AioIdle

\* process_item returns item.upper(), the result is appended, and the loop
\* calls process_item on the next item, if any
ProcessReturn ==
  /\ ready # <<>>
  /\ Head(ready)[1] = "main"
  /\ aio.pc = "woken"
  /\ LET i == aio.item
         a == [aio EXCEPT !.processed_items =
                            Append(aio.processed_items, upper(items[i]))]
     IN  IF i < Len(items)
         THEN /\ aio' = process_item_begun(a, i + 1)
              /\ events' = events \o <<(<<"returned", items[i]>>),
                                       (<<"Analyzing", items[i + 1]>>)>>
         ELSE /\ aio' = [a EXCEPT !.pc = "processed"]
              /\ events' = events \o <<(<<"returned", items[i]>>),
                                       (<<"Processed results", "main">>)>>
  /\ ready' = Tail(ready)
  /\ UNCHANGED fetch
  /\ AioIdle

(* ========================== specifications ============================= *)

Init == ChainInit /\ CmdInit /\ RoundInit /\ CallersInit /\ TsInit
        /\ SgInit /\ ProxyInit /\ BankInit /\ EmpInit
        /\ AioInit

ChainNext ==
  \/ \E h \in Handlers, g \in Handlers : SetNext(h, g)
  \/ \E h \in Handlers, lv \in Levels : Submit(h, lv)
  \/ HandleAccept
  \/ HandleDelegate
  \/ HandleRecursionError
  \/ HandleUnhandled
  \/ Return

SpecChain == Init /\ [][ChainNext]_vars

CmdNext ==
  \/ \E c \in Commands : PressButton(c)
  \/ PressUndo

SpecCmd == Init /\ [][CmdNext]_vars

RoundNext ==
  \/ \E c \in Commands : RoundPress(c)
  \/ RoundUndo
  \/ RoundEnd

SpecRound == Init /\ [][RoundNext]_vars

CallersNext ==
  \/ \E h \in Handlers, g \in Handlers : CallersSetNext(h, g)
  \/ \E c \in Callers, lv \in Levels : CallerSubmit(c, lv)
  \/ \E c \in Callers : CallerAccept(c)
  \/ \E c \in Callers : CallerDelegate(c)
  \/ \E c \in Callers : CallerRecursionError(c)
  \/ \E c \in Callers : CallerUnhandled(c)
  \/ \E c \in Callers : CallerReturn(c)

SpecCallers == Init /\ [][CallersNext]_vars

TsNext ==
  \E t \in Threads :
    \/ TsCall(t)
    \/ TsNewCheck(t)
    \/ TsAcquire(t)
    \/ TsSecondCheck(t)
    \/ TsCreate(t)
    \/ TsRelease(t)
    \/ TsNewReturn(t)
    \/ TsInitCheck(t)
    \/ TsSetValue(t)
    \/ TsSetInitialized(t)
    \/ TsReturned(t)

SpecThreads == Init /\ [][TsNext]_vars

SgNext ==
  \/ \E name \in LoggerNames : LoggerCall(name)
  \/ \E a \in DbArgs : DbCall(a)
  \/ \E cf \in ConfigFiles : CfgCall(cf)
  \/ DbConnect
  \/ DbDisconnect
  \/ \E q \in Queries : DbExecuteQuery(q)

SpecSingletons == Init /\ [][SgNext]_vars

SmartNext ==
  \/ \E d \in Data : OtherWrite(d)
  \/ SmartConstruct
  \/ SmartRead
  \/ \E d \in Data : SmartWrite(d)

SpecSmart == Init /\ [][SmartNext]_vars

LazyNext ==
  \/ LazyRead
  \/ \E d \in Data : LazyWrite(d)

SpecLazy == Init /\ [][LazyNext]_vars

ProtectedNext ==
  \/ \E role \in Roles : ProtectedConstruct(role)
  \/ ProtectedRead
  \/ \E d \in Data : ProtectedWrite(d)

SpecProtected == Init /\ [][ProtectedNext]_vars

BankNext ==
  \/ \E initial \in Amounts : BankConstruct(initial)
  \/ \E amount \in Amounts : SetBalance(amount)
  \/ \E amount \in Amounts : Deposit(amount)
  \/ \E amount \in Amounts : Withdraw(amount)

SpecBank == Init /\ [][BankNext]_vars

EmpNext ==
  \/ \E salary \in Salaries : EmpConstruct(salary)
  \/ \E new_salary \in Salaries : SetSalary(new_salary)
  \/ \E percentage \in Percentages : GiveRaise(percentage)

SpecEmployee == Init /\ [][EmpNext]_vars

AioNext ==
  \/ GatherCall
  \/ \E delay \in Delays : FetchStart(delay)
  \/ \E t \in Tasks : FetchTimer(t)
  \/ FetchComplete
  \/ DoneCallback
  \/ GatherReturn
  \/ ProcessTimer
  \/ ProcessReturn

SpecAsync == Init /\ [][AioNext]_vars

TypeOK ==
  /\ next_handler \in [Handlers -> Handlers \cup {None}]
  /\ pc \in {"idle", "call", "done"}
  /\ result \in {"pending", "True", "False", "RecursionError"}
  /\ is_on \in [Lights -> BOOLEAN]
  /\ phase \in {"idle", "pressing", "undoing"}

(* ============================= properties ============================== *)

Range(s) == {s[i] : i \in 1..Len(s)}

RECURSIVE Walk(_, _)
Walk(h, seen) ==
  IF h = None \/ h \in Range(seen) THEN seen
  ELSE Walk(next_handler[h], Append(seen, h))

\* the handlers reached from h by following _next_handler, in order
ChainFrom(h) == Walk(h, <<>>)

\* the chain from h ends in a handler with no successor
EndsInLast(h) == next_handler[ChainFrom(h)[Len(ChainFrom(h))]] = None

HandledLines == {i \in 1..Len(log) : log[i].ev = "Handled"}

DemoOrder == <<"junior", "senior", "lead", "manager">>

Min(S) == CHOOSE x \in S : \A y \in S : x <= y

\* C1: on the demo chain, junior.handle(request, level) with level <= 4 is
\* accepted by exactly one handler, which is the last handler invoked, and
\* the call returns True.
C1_DemoAcceptedOnce ==
  (next_handler = DemoChain /\ pc = "done" /\ trace[1] = "junior" /\ level <= 4)
    => /\ result = "True"
       /\ Cardinality(HandledLines) = 1
       /\ log = <<HandledLine(trace[Len(trace)])>>
       /\ trace = SubSeq(DemoOrder, 1, Len(trace))

C1_Witness ==
  /\ next_handler = DemoChain
  /\ pc = "done"
  /\ level = 4
  /\ trace = DemoOrder
  /\ result = "True"

\* C2: on any chain and for any level, the accepting handler is the first
\* handler in chain order whose test level <= threshold holds, the handlers
\* before it only delegate, and nothing runs after the acceptance; on the
\* demo chain level 2 is handled by senior and level 10 by nobody.
C2_FirstMatchWins ==
  /\ pc = "call" => (log = <<>> /\ result = "pending")
  /\ pc = "done" =>
       LET path == ChainFrom(trace[1])
           matches == {i \in 1..Len(path) : level <= Threshold[path[i]]}
       IN  /\ IF matches # {}
              THEN /\ result = "True"
                   /\ trace = SubSeq(path, 1, Min(matches))
                   /\ log = <<HandledLine(path[Min(matches)])>>
              ELSE /\ result # "True"
                   /\ HandledLines = {}
           /\ (next_handler = DemoChain /\ trace[1] = "junior" /\ level = 2)
                => log = <<HandledLine("senior")>>
           /\ (next_handler = DemoChain /\ trace[1] = "junior"
                 /\ level = DemoHighLevel)
                => (result = "False" /\ HandledLines = {})

C2_Witness ==
  /\ pc = "done"
  /\ trace = <<"lead", "junior", "manager">>
  /\ level = 4
  /\ result = "True"

\* C3: when the chain ends in a handler without successor and the level is
\* above every threshold in it, every handler is invoked in turn, the last one
\* reports the request as unhandled and the call returns False, no exception.
C3_UnhandledReturnsFalse ==
  (/\ pc = "done"
   /\ EndsInLast(trace[1])
   /\ \A h \in Range(ChainFrom(trace[1])) : level > Threshold[h])
    => /\ result = "False"
       /\ trace = ChainFrom(trace[1])
       /\ log = <<UnhandledLine(trace[Len(trace)])>>

C3_Witness ==
  /\ next_handler = DemoChain
  /\ pc = "done"
  /\ trace = DemoOrder
  /\ level = DemoHighLevel
  /\ result = "False"
  /\ log = <<UnhandledLine("manager")>>

\* C4: after N press_button calls from an empty history followed by N
\* press_undo calls, every Light's is_on is what it was before the first press.
C4_RoundTrip ==
  (phase = "undoing" /\ history = <<>>) => is_on = orig

\* C5: MacroCommand([A, B]) executed and then undone leaves every Light's
\* is_on as it was before the macro was executed.
C5_MacroRoundTrip ==
  (/\ phase = "undoing"
   /\ history = <<>>
   /\ npressed = 1
   /\ calls # <<>>
   /\ calls[1].c.kind = "MacroCommand"
   /\ Len(calls[1].c.commands) = 2)
    => is_on = orig

\* C6: MacroCommand.execute executes the members in list order, and
\* MacroCommand.undo undoes every member once, in the reverse of that order.
C6_MacroOrder ==
  (calls # <<>> /\ calls[1].c.kind = "MacroCommand")
    => LET m == calls[1].c.commands
           n == Len(m)
       IN  /\ Len(calls) = n + 1
           /\ calls[1].m = "execute"
                => \A i \in 1..n : calls[i + 1] = Call("execute", m[i])
           /\ calls[1].m = "undo"
                => \A i \in 1..n : calls[i + 1] = Call("undo", m[n + 1 - i])

C6_Witness ==
  /\ Len(calls) = 3
  /\ calls[1] = Call("undo", MacroCommand(<<LightOnCommand("living_room"),
                                           LightOffCommand("kitchen")>>))
  /\ calls[2] = Call("undo", LightOffCommand("kitchen"))

\* C7: press_undo on an empty history prints "Nothing to undo.", raises
\* nothing, undoes no command and changes neither the history nor any Light.
C7_EmptyUndo ==
  /\ [](out = NothingToUndo => (history = <<>> /\ calls = <<>>))
  /\ [][(history = <<>> /\ history' = <<>>)
          => (out' = NothingToUndo /\ calls' = <<>> /\ is_on' = is_on)]_vars

C7_Witness ==
  /\ out = NothingToUndo
  /\ history = <<>>
  /\ calls = <<>>
  /\ is_on["living_room"]

\* C8: every press_button(c) executes c and appends c to the history once,
\* whatever the Lights' state, so the history length is the number of
\* press_button calls minus the number of press_undo calls that popped.
C8_PressRecorded ==
  /\ [](Len(history) = net)
  /\ [][net' = net + 1
          => \E c \in Commands :
               /\ calls'[1] = Call("execute", c)
               /\ history' = Append(history, c)]_vars

C8_Witness ==
  /\ history = <<LightOffCommand("living_room"), LightOffCommand("living_room")>>
  /\ net = 2
  /\ is_on = [l \in Lights |-> FALSE]

\* C9 as stated: undo() is only ever called on the entry press_undo has just
\* popped from the history.
C9_UndoOnlyOnPopped ==
  [][\A i \in 1..Len(calls') :
       (calls' # calls /\ calls'[i].m = "undo")
         => /\ history # <<>>
            /\ history' = SubSeq(history, 1, Len(history) - 1)
            /\ calls'[i].c = history[Len(history)]]_vars

\* C9 amended: undo() is only called while press_undo pops an entry, on that
\* entry and, when it is a MacroCommand, on the members of that macro.
C9_UndoOnlyThroughHistory ==
  [][\A i \in 1..Len(calls') :
       ((calls' # calls \/ history' # history) /\ calls'[i].m = "undo")
         => /\ history # <<>>
            /\ history' = SubSeq(history, 1, Len(history) - 1)
            /\ calls'[1] = Call("undo", history[Len(history)])
            /\ i > 1 => /\ history[Len(history)].kind = "MacroCommand"
                        /\ calls'[i].c \in Range(history[Len(history)].commands)]_vars

C9_Witness ==
  /\ history = <<LightOnCommand("living_room")>>
  /\ calls = <<Call("undo", MacroCommand(<<LightOnCommand("living_room"),
                                          LightOnCommand("kitchen")>>)),
               Call("undo", LightOnCommand("kitchen")),
               Call("undo", LightOnCommand("living_room"))>>

\* C10: the history is a LIFO stack: press_button pushes on top, press_undo
\* on a non-empty history removes and undoes the top entry, and the history
\* shrinks in no other way.
C10_Lifo ==
  [][/\ Len(history') > Len(history)
          => \E c \in Commands :
               /\ history' = Append(history, c)
               /\ calls'[1] = Call("execute", c)
     /\ Len(history') < Len(history)
          => /\ history' = SubSeq(history, 1, Len(history) - 1)
             /\ calls'[1] = Call("undo", history[Len(history)])
             /\ out' = Undoing(history[Len(history)])
     /\ Len(history') = Len(history) => history' = history
     /\ (net' = net - 1) => Len(history') < Len(history)]_vars

C10_Witness ==
  /\ history = <<LightOnCommand("living_room")>>
  /\ calls = <<Call("undo", LightOnCommand("kitchen"))>>
  /\ out = Undoing(LightOnCommand("kitchen"))

\* C11: after any sequence of set_next calls the successor links are acyclic:
\* from every handler the links lead, without revisiting a handler, to a
\* handler with no successor.
C11_Acyclic == \A h \in Handlers : EndsInLast(h)

\* what junior.handle(request, lv) returns on the present chain when it runs
\* with no other call in progress
AloneResult(lv) ==
  LET path == ChainFrom("junior")
  IN  IF \E i \in 1..Len(path) : lv <= Threshold[path[i]] THEN "True"
      ELSE IF EndsInLast("junior") THEN "False"
      ELSE "RecursionError"

\* C12: no step of a handle call writes a _next_handler, and under every
\* interleaving of several callers each call returns what it returns alone.
C12_HandleStateless ==
  /\ [][callers' # callers => next_handler' = next_handler]_vars
  /\ [](\A c \in Callers :
          callers[c].pc = "done"
            => callers[c].result = AloneResult(callers[c].level))

C12_Witness ==
  /\ next_handler = DemoChain
  /\ callers["caller1"].pc = "call"
  /\ callers["caller1"].level = 2
  /\ callers["caller1"].cur = "senior"
  /\ callers["caller2"].pc = "done"
  /\ callers["caller2"].level = DemoHighLevel
  /\ callers["caller2"].result = "False"

Completed(t) == ts_thr[t].pc \in {"returned", "done"}

\* C13: under every interleaving of the threads' constructor calls the
\* instance object is created at most once and every call returns that object.
C13_OneInstance ==
  /\ Len(ts_objs) <= 1
  /\ \A t \in Threads :
       (Completed(t) \/ ts_thr[t].pc \in {"init_check", "set_value",
                                          "set_initialized"})
         => (ts_thr[t].obj = 1 /\ ts_instance = 1)

C13_Witness ==
  /\ \A w \in Workers : ts_thr[w].pc = "done" /\ ts_thr[w].obj = 1
  /\ ts_thr[Main].pc = "done"
  /\ Len(ts_objs) = 1

\* C14: the guarded body of __init__ runs exactly once, and the instance's
\* value is not overwritten once some thread has completed its constructor.
C14_InitOnce ==
  /\ [](ts_inits <= 1)
  /\ []((\E t \in Threads : Completed(t)) => ts_inits = 1)
  /\ [][(\E t \in Threads : Completed(t))
          => ts_objs'[1].value = ts_objs[1].value]_vars

\* C15: single-threaded, every Logger(...), DatabaseConnection(...) and
\* ConfigurationManager(...) call returns the one object of its class, and that
\* object keeps the arguments of the first call.
C15_SameObjectFirstConfig ==
  /\ Len(lg.objs) <= 1 /\ Len(db.objs) <= 1 /\ Len(cfg.objs) <= 1
  /\ lg.called
       => (lg.ret = 1 /\ lg.instance = 1 /\ lg.objs[1].name = lg.first)
  /\ db.called
       => /\ db.ret = 1 /\ db.instance = 1
          /\ db.objs[1].host = db.first.host
          /\ db.objs[1].port = db.first.port
  /\ cfg.called
       => (cfg.ret = 1 /\ cfg.instance = 1
             /\ cfg.objs[1].config_file = cfg.first)

C15_Witness ==
  /\ lg.first = "AppLogger" /\ lg.lastarg = "DifferentName"
  /\ db.first = [host |-> "prod-db", port |-> 5432]
  /\ db.lastarg = [host |-> "dev-db", port |-> 3306]
  /\ db.objs[1].host = "prod-db"
  /\ cfg.first = "app_config.json" /\ cfg.lastarg = "other_config.json"

Connected == db.objs[db.ret].connected

\* C16: connected is True exactly when the latest of connect/disconnect was
\* connect; execute_query returns the not-connected error exactly when
\* connected is False and does not change connected; connect when connected
\* and disconnect when not connected leave connected as it is.
C16_ConnectionState ==
  /\ [](db.ret # 0 => (Connected <=> db.last = "connect"))
  /\ [][(db.ret # 0 /\ db' # db /\ db'.out.op = "execute_query")
          => /\ db'.objs = db.objs
             /\ (db'.out.ret = NotConnectedError) <=> ~Connected]_vars
  /\ [][(db.ret # 0 /\ db'.out.op = "connect" /\ db' # db /\ Connected)
          => (db'.objs = db.objs /\ db'.out.ret = <<"Already connected">>)]_vars
  /\ [][(db.ret # 0 /\ db'.out.op = "disconnect" /\ db' # db /\ ~Connected)
          => (db'.objs = db.objs /\ db'.out.ret = <<"Not connected">>)]_vars

C16_Witness ==
  /\ db.ret # 0
  /\ Connected
  /\ db.last = "connect"
  /\ db.out = [op |-> "execute_query", ret |-> Executed("SELECT * FROM users")]
  /\ db.lastarg = [host |-> "dev-db", port |-> 3306]

\* C17 as stated: read_data of the smart proxy returns the data of the most
\* recent write_data, or the wrapped source's initial content; a write empties
\* the cache.
C17_ReadsLastWrite ==
  /\ sm.lastop = "read" => sm.ret = sm.expected
  /\ sm.lastop = "write" => ~sm.cache.has

\* C17 amended: read_data of the smart proxy returns what the wrapped source
\* reads back from the most recent write_data (the data with "\r\n" and "\r"
\* turned into "\n"), or its initial content; a write empties the cache and
\* the cache never holds anything but the wrapped source's present content.
C17_ReadsWrappedContent ==
  /\ sm.lastop = "read"
       => (sm.ret = universal_newlines(sm.expected) /\ sm.ret = RealRead(file))
  /\ sm.lastop = "write" => ~sm.cache.has
  /\ sm.cache.has => sm.cache.data = RealRead(file)

C17_Witness ==
  /\ sm.lastop = "read"
  /\ sm.log = <<<<"read", "fresh">>, <<"write", "direct">>,
               <<"read", "fresh">>, <<"read", "cache">>>>
  /\ sm.expected = <<"a", "CR">>
  /\ sm.ret = <<"a", "LF">>

\* C18: a LazyFileDataSource has no real datasource until the first read_data
\* or write_data, creates it then, never creates a second one, and every call
\* delegates to that one object.
C18_LazyOnce ==
  /\ lz.created <= 1
  /\ lz.lastop = "none" => (lz.created = 0 /\ lz.real = 0)
  /\ lz.lastop # "none" => (lz.created = 1 /\ lz.real = 1 /\ lz.used = 1)

C18_Witness ==
  /\ lz.lastop = "read"
  /\ file.exists
  /\ lz.created = 1
  /\ lz.used = 1

\* C19: with a user_role other than "admin" and "editor" no call reaches the
\* wrapped datasource: read_data returns "Access denied" and write_data leaves
\* the file as it is; with an allowed role every call is forwarded and
\* read_data returns the wrapped datasource's result.
C19_AccessControl ==
  /\ [](pr.lastop # "none" => (pr.delegated <=> pr.role \in {"admin", "editor"}))
  /\ []((pr.lastop = "read" /\ pr.role \notin {"admin", "editor"})
          => pr.ret = AccessDenied)
  /\ []((pr.lastop = "read" /\ pr.role \in {"admin", "editor"})
          => pr.ret = RealRead(file))
  /\ [][pr'.role \notin {"admin", "editor"} => file' = file]_vars
  /\ [][(pr'.role \in {"admin", "editor"} /\ pr'.lastop = "write"
           /\ <<pr, file>>' # <<pr, file>>)
          => file' = [exists |-> TRUE, data |-> pr'.arg]]_vars

C19_Witness ==
  /\ pr.role = "guest"
  /\ pr.lastop = "write"
  /\ pr.arg = <<"a">>
  /\ file = [exists |-> TRUE, data |-> <<"a", "a">>]
  /\ ~pr.delegated

\* C20: whatever deposit, withdraw and balance-setter calls are made on a
\* BankAccount, raising or not, its balance is never negative.
C20_BalanceNonNegative == acct.exists => acct.balance >= 0

\* a call on the account was made in this step: op(arg), as recorded with
\* its outcome in the next state
BankCalled(op) == acct.exists /\ acct' # acct /\ acct'.op = op
BankRejected == acct'.raised # "no" /\ acct'.balance = acct.balance

\* C21: deposit(amount) with amount <= 0, withdraw(amount) with amount <= 0
\* or amount > balance, and setting the balance to a negative amount each raise
\* ValueError and leave _balance as it was; an accepted deposit adds exactly
\* amount and an accepted withdraw takes away exactly amount.
C21_RejectedUnchanged ==
  [][LET amount == acct'.arg IN
     /\ BankCalled("deposit") =>
          IF amount <= 0
          THEN BankRejected
          ELSE acct'.raised = "no" /\ acct'.balance = acct.balance + amount
     /\ BankCalled("withdraw") =>
          IF amount <= 0 \/ amount > acct.balance
          THEN BankRejected
          ELSE acct'.raised = "no" /\ acct'.balance = acct.balance - amount
     /\ BankCalled("balance") /\ amount < 0 => BankRejected]_vars

\* withdraw(amount) with amount above a positive balance has just been refused
C21_Witness ==
  /\ acct.op = "withdraw"
  /\ acct.raised = "Insufficient funds"
  /\ acct.arg > acct.balance
  /\ acct.balance > 0
  /\ acct.balance = acct.before

\* a call on the Employee was made in this step: op, as recorded with its
\* outcome in the next state
EmpCalled(op) == emp.exists /\ emp' # emp /\ emp'.op = op
EmpRejected == emp'.raised # "no" /\ emp'.salary = emp.salary

\* k times the number x, exactly
Times(k, x) == [x EXCEPT !.mant = Mul(NatBits(k), x.mant)]

\* new_salary is less than 90% of salary: 10 * new_salary < 9 * salary
BelowNinetyPercent(new_salary, salary) ==
  Less(Times(10, new_salary), Times(9, salary))

\* C22: with integer salaries, an assignment to salary that succeeds sets a
\* value that is not negative and at least 90% of the previous salary; an
\* assignment below 0 or below 90% of the current salary raises ValueError
\* and leaves the salary as it was; give_raise(p) with p <= 0 raises and
\* changes nothing.
C22_SalaryRules ==
  [][/\ (EmpCalled("salary") /\ ~emp.salary.float /\ ~emp'.arg.float) =>
          IF \/ Less(emp'.arg, Zero)
             \/ BelowNinetyPercent(emp'.arg, emp.salary)
          THEN EmpRejected
          ELSE emp'.raised = "no" => emp'.salary = emp'.arg
     /\ (EmpCalled("give_raise") /\ emp'.percentage <= 0) => EmpRejected]_vars

\* the places of event e among the printed events
Places(e) == {i \in 1..Len(events) : events[i] = e}

\* C23: whatever the delays and the order in which the three fetch_data tasks
\* complete, gather returns only after all three have completed, with
\* ["Result from A", "Result from B", "Result from C"] in argument order; and
\* in the loop process_item starts on an item only after process_item on the
\* item before it has finished.
C23_GatherThenSequential ==
  /\ aio.pc \notin {"start", "gather"} =>
       /\ \A t \in Tasks : fetch[t].pc = "done"
       /\ \A t \in Tasks :
            \A i \in Places(<<"Gathered Results", "main">>) :
              \E j \in Places(<<"Completed", t>>) : j < i
       /\ aio.results = <<"Result from A", "Result from B", "Result from C">>
  /\ \A k \in 2..Len(items) :
       \A i \in Places(<<"Analyzing", items[k]>>) :
         \E j \in Places(<<"returned", items[k - 1]>>) : j < i

\* the tasks completed in the order C, A, B, gather has returned and the loop
\* has gone through all the items
C23_Witness ==
  /\ aio.pc = "processed"
  /\ aio.finished = <<"C", "A", "B">>
  /\ aio.results = <<"Result from A", "Result from B", "Result from C">>
  /\ aio.processed_items = <<"DATA_CHUNK_1", "DATA_CHUNK_2", "DATA_CHUNK_3">>

====
